---- MODULE Spec2Model ----
(***************************************************************************)
(* Trading-session windowing pipeline of plot-stock-charts: validation of  *)
(* the command line, the indicator block, CSV ingestion, selection of the  *)
(* latest N trading days, per-day trading-hours filtering with its         *)
(* fallbacks, alignment of the indicators and delivery, as driven by       *)
(* main().                                                                 *)
(*                                                                         *)
(* Time is counted in whole hours.  A timestamp is an offset-aware local   *)
(* wall-clock reading (date, hour, UTC offset in hours); two timestamps    *)
(* compare by the instant they denote, and .date() is the local date.      *)
(***************************************************************************)
EXTENDS Integers, Sequences, FiniteSets, TLC

VARIABLES
    csv,               \* rows of the input file, in file order
    days,              \* args.days
    calendar,          \* the exchange's schedule (exchange_calendars data)
    pc,                \* position of main()
    dataset,           \* main: dataset (StockDataset.data)
    latest_date,       \* main: latest_date
    trading_days,      \* get_latest_trading_days: trading_days, then main's
    current_date,      \* get_latest_trading_days: current_date
    days_checked,      \* get_latest_trading_days: days_checked
    day_index,         \* main: position of the multi-day for loop
    all_filtered_data, \* main: all_filtered_data
    filtered_data,     \* main: filtered_data
    last_filter,       \* the latest call of filter_trading_hours
    queries,           \* number of get_trading_hours lookups made so far
    sink_data,         \* the dataset handed to export_to_json / the plotter
    error,             \* the logger.error message that preceded sys.exit(1)
    exit_code,         \* process exit code, -1 while main() is running
    input_path,        \* what args.input names: "ok", "not_csv" or "missing"
    exchange_known,    \* whether exchange_calendars resolves args.exchange
    indicators,        \* args.indicators: the requested EMA periods
    output,            \* args.output: "" when absent, else "ok" or "bad"
    events,            \* in order: look-ups ("exists") and loads ("read") of
                       \* the input file, and the validation of the exchange
    indicators_data,   \* main: indicators_data (name -> full-history series)
    filtered_indicators_data, \* main: filtered_indicators_data
    indicators_for_json,      \* main: indicators_for_json
    lines,             \* args.lines: "" when absent, else "ok" or "bad"
    log,               \* the messages logged about closures and fallbacks
    json_structure,    \* what export_to_json dumps into the output file
    chart_data         \* the rows plot_candlestick_chart hands to the chart

\* The command line apart from --days.
args == <<input_path, exchange_known, indicators, output, lines>>

indicator_results ==
    <<indicators_data, filtered_indicators_data, indicators_for_json>>

vars == <<csv, days, calendar, pc, dataset, latest_date, trading_days,
          current_date, days_checked, day_index, all_filtered_data,
          filtered_data, last_filter, queries, sink_data, error, exit_code,
          input_path, exchange_known, indicators, output, events,
          indicators_data, filtered_indicators_data, indicators_for_json,
          lines, log, json_structure, chart_data>>

\* Python's None, where a date or a pair of trading hours is expected.
NoDate == [year |-> 0, month |-> 0, day |-> 0]
NoHours == <<>>

(***************************************************************************)
(* Bounds of the model.                                                    *)
(***************************************************************************)
MaxRows == 3
MaxDays == 2

(***************************************************************************)
(* datetime.date: a (year, month, day) triple, ordered lexicographically.  *)
(***************************************************************************)
Date(y, m, d) == [year |-> y, month |-> m, day |-> d]

DateLT(a, b) ==
    \/ a.year < b.year
    \/ a.year = b.year /\ a.month < b.month
    \/ a.year = b.year /\ a.month = b.month /\ a.day < b.day

DateLE(a, b) == a = b \/ DateLT(a, b)

\* Mutant: February always has 28 days.
get_last_day_of_month_no_leap(year, month) ==
    IF month \in {1, 3, 5, 7, 8, 10, 12} THEN 31
    ELSE IF month \in {4, 6, 9, 11} THEN 30
    ELSE 28

\* Mutant: every fourth year is a leap year, century years included.
get_last_day_of_month_julian(year, month) ==
    IF month \in {1, 3, 5, 7, 8, 10, 12} THEN 31
    ELSE IF month \in {4, 6, 9, 11} THEN 30
    ELSE IF year % 4 = 0 THEN 29 ELSE 28

get_last_day_of_month(year, month) ==
    IF month \in {1, 3, 5, 7, 8, 10, 12} THEN 31
    ELSE IF month \in {4, 6, 9, 11} THEN 30
    ELSE IF (year % 4 = 0 /\ year % 100 # 0) \/ (year % 400 = 0) THEN 29 ELSE 28

\* The "move to previous day" expression of get_latest_trading_days.
previous_day(current) ==
    IF current.day > 1
    THEN Date(current.year, current.month, current.day - 1)
    ELSE IF current.month > 1
         THEN Date(current.year, current.month - 1,
                   get_last_day_of_month(current.year, current.month - 1))
         ELSE Date(current.year - 1, 12, 31)

\* date.toordinal(): the proleptic Gregorian day number of a date.
DaysBeforeYear(year) ==
    (year - 1) * 365 + (year - 1) \div 4 - (year - 1) \div 100 + (year - 1) \div 400

IsLeapYear(year) == year % 4 = 0 /\ (year % 100 # 0 \/ year % 400 = 0)

DaysBeforeMonth(year, month) ==
    <<0, 31, 59, 90, 120, 151, 181, 212, 243, 273, 304, 334>>[month]
        + (IF month > 2 /\ IsLeapYear(year) THEN 1 ELSE 0)

toordinal(d) == DaysBeforeYear(d.year) + DaysBeforeMonth(d.year, d.month) + d.day

(***************************************************************************)
(* Offset-aware datetimes as parse_datetime produces them.                 *)
(***************************************************************************)
Timestamp(d, h, off) == [date |-> d, hour |-> h, off |-> off]

\* The off field of a datetime whose tzinfo is None; no UTC offset is that
\* large.
NoOffset == 99

\* The instant a timestamp denotes, in hours (aware datetimes compare by it).
Instant(ts) == toordinal(ts.date) * 24 + ts.hour - ts.off

OHLCVData(ts, c) == [timestamp |-> ts, close |-> c]

(***************************************************************************)
(* StockDataset                                                            *)
(***************************************************************************)
RECURSIVE InsertByTimestamp_before_equal(_, _)
\* Mutant: a point is put before the points of its own timestamp.
InsertByTimestamp_before_equal(s, p) ==
    IF s = <<>> THEN <<p>>
    ELSE IF Instant(s[Len(s)].timestamp) < Instant(p.timestamp)
         THEN Append(s, p)
         ELSE Append(InsertByTimestamp_before_equal(SubSeq(s, 1, Len(s) - 1), p),
                     s[Len(s)])

\* sorted(data, key=lambda x: x.timestamp): stable, ascending by instant.
RECURSIVE InsertByTimestamp(_, _)
InsertByTimestamp(s, p) ==
    IF s = <<>> THEN <<p>>
    ELSE IF Instant(s[Len(s)].timestamp) <= Instant(p.timestamp)
         THEN Append(s, p)
         ELSE Append(InsertByTimestamp(SubSeq(s, 1, Len(s) - 1), p), s[Len(s)])

RECURSIVE SortFrom(_, _, _)
SortFrom(data, i, acc) ==
    IF i > Len(data) THEN acc
    ELSE SortFrom(data, i + 1, InsertByTimestamp(acc, data[i]))

\* Mutant: the list is kept as given.
StockDataset_unsorted(data) == data

StockDataset(data) == SortFrom(data, 1, <<>>)

get_latest_date(data) ==
    IF data = <<>> THEN NoDate ELSE data[Len(data)].timestamp.date

RECURSIVE PointsOfDate(_, _, _)
\* [point for point in data[i..] if point.timestamp.date() == target_date]
PointsOfDate(data, target_date, i) ==
    IF i > Len(data) THEN <<>>
    ELSE IF data[i].timestamp.date = target_date
         THEN <<data[i]>> \o PointsOfDate(data, target_date, i + 1)
         ELSE PointsOfDate(data, target_date, i + 1)

RECURSIVE PointsInRange(_, _, _, _)
\* [point for point in data[i..] if start_time <= point.timestamp <= end_time]
PointsInRange(data, start_time, end_time, i) ==
    IF i > Len(data) THEN <<>>
    ELSE IF /\ start_time <= Instant(data[i].timestamp)
            /\ Instant(data[i].timestamp) <= end_time
         THEN <<data[i]>> \o PointsInRange(data, start_time, end_time, i + 1)
         ELSE PointsInRange(data, start_time, end_time, i + 1)

\* Mutant: keeps the target date and every later one.
filter_by_date_onwards(data, target_date) ==
    StockDataset(SelectSeq(data, LAMBDA point : ~DateLT(point.timestamp.date, target_date)))

filter_by_date(data, target_date) ==
    StockDataset(PointsOfDate(data, target_date, 1))

\* Mutant: the end of the range is excluded.
filter_by_time_range_open_end(data, start_time, end_time) ==
    StockDataset(SelectSeq(data, LAMBDA point : /\ start_time <= Instant(point.timestamp)
                                                /\ Instant(point.timestamp) < end_time))

filter_by_time_range(data, start_time, end_time) ==
    StockDataset(PointsInRange(data, start_time, end_time, 1))

\* timestamp.replace(tzinfo=None): the wall-clock reading of the timestamp,
\* its UTC offset dropped.
replace_tzinfo_none(timestamp) == [date |-> timestamp.date, hour |-> timestamp.hour]

\* Where a naive timestamp lies on the time axis of a chart or of a reader of
\* the exported file.
NaiveOrdinal(naive) == toordinal(naive.date) * 24 + naive.hour

\* OHLCVData.to_lightweight_charts_format: every timestamp of the program
\* carries an offset, so "time" is always the stripped timestamp.
point_to_lightweight_charts_format(point) ==
    [time |-> replace_tzinfo_none(point.timestamp), close |-> point.close]

\* StockDataset.to_lightweight_charts_format
to_lightweight_charts_format(data) ==
    [i \in 1..Len(data) |-> point_to_lightweight_charts_format(data[i])]

(***************************************************************************)
(* ExchangeCalendar.  The schedule itself is data of the exchange_calendars*)
(* library: a date is a session by default or not (base_open), except on   *)
(* the listed dates; every session runs from SessionOpenHour to            *)
(* SessionCloseHour UTC of its date.                                       *)
(***************************************************************************)
SessionOpenHour == 8
SessionCloseHour == 16

HasSchedule(cal, target_date) ==
    IF target_date \in cal.exceptions THEN ~cal.base_open ELSE cal.base_open

\* NoHours when the exchange is closed, else <<open_dt, close_dt>> as instants.
get_trading_hours(cal, target_date) ==
    IF ~HasSchedule(cal, target_date) THEN NoHours
    ELSE <<toordinal(target_date) * 24 + SessionOpenHour,
           toordinal(target_date) * 24 + SessionCloseHour>>

is_trading_day(cal, target_date) == get_trading_hours(cal, target_date) # NoHours

\* One logged message about a closure or a fallback, and the date it names.
LogEntry(message, d) == [message |-> message, date |-> d]

\* What get_trading_hours logs before it returns None: each of its four
\* None returns (empty schedule, NaT, KeyError, any other exception) logs one
\* message that names the date.
get_trading_hours_log(cal, target_date) ==
    IF get_trading_hours(cal, target_date) = NoHours
    THEN {LogEntry("Exchange is closed", target_date)}
    ELSE {}

\* Mutant: a closed exchange gives an empty dataset instead of the ValueError.
filter_trading_hours_no_raise(cal, data, target_date) ==
    LET trading_hours == get_trading_hours(cal, target_date)
    IN  IF trading_hours = NoHours
        THEN [raised |-> FALSE, data |-> <<>>]
        ELSE [raised |-> FALSE,
              data |-> filter_by_time_range(data, trading_hours[1], trading_hours[2])]

\* raised = TRUE stands for the ValueError("Exchange ... is closed on ...").
filter_trading_hours(cal, data, target_date) ==
    LET trading_hours == get_trading_hours(cal, target_date)
    IN  IF trading_hours = NoHours
        THEN [raised |-> TRUE, data |-> <<>>]
        ELSE [raised |-> FALSE,
              data |-> filter_by_time_range(data, trading_hours[1], trading_hours[2])]

(***************************************************************************)
(* CSVReader                                                               *)
(***************************************************************************)
\* One row of the file, by what its cells are.  kind "ok": every cell parses;
\* "unparseable": the timestamp text or a numeric cell is not in the expected
\* format; "no_offset": the timestamp text is a date and a time without a UTC
\* offset; "no_timestamp": the timestamp cell is empty, which pandas hands
\* over as a float NaN.
Row(kind, ts, c) == [kind |-> kind, timestamp |-> ts, close |-> c]

\* Mutant: the offset is optional in the timestamp format.
RowException_offset_optional(row) ==
    CASE row.kind = "ok" -> ""
      [] row.kind = "unparseable" -> "ValueError"
      [] row.kind = "no_offset" -> ""
      [] row.kind = "no_timestamp" -> "AttributeError"

\* What parse_datetime and the float() conversions raise on a row, "" when
\* nothing: strptime and float() raise ValueError on bad text, and '%z' in
\* the format makes a text without offset bad text;
\* datetime_str.replace raises AttributeError on a float, outside the
\* "except ValueError" of parse_datetime.
RowException(row) ==
    CASE row.kind = "ok" -> ""
      [] row.kind = "unparseable" -> "ValueError"
      [] row.kind = "no_offset" -> "ValueError"
      [] row.kind = "no_timestamp" -> "AttributeError"

RECURSIVE ParseRows(_, _, _)
\* The row loop of load_csv from row i on: "except (ValueError, TypeError)"
\* skips the row, any other exception leaves the loop and load_csv.
ParseRows(rows, i, ohlcv_data) ==
    IF i > Len(rows) THEN [exception |-> "", data |-> ohlcv_data]
    ELSE LET e == RowException(rows[i])
         IN  IF e = ""
             THEN ParseRows(rows, i + 1,
                            Append(ohlcv_data,
                                   OHLCVData(rows[i].timestamp, rows[i].close)))
             ELSE IF e \in {"ValueError", "TypeError"}
             THEN ParseRows(rows, i + 1, ohlcv_data)
             ELSE [exception |-> e, data |-> <<>>]

\* The points of a file all of whose rows parse, in file order.
PointsOfFile(rows) ==
    [i \in 1..Len(rows) |-> OHLCVData(rows[i].timestamp, rows[i].close)]

\* raised = TRUE with exception "ValueError" stands for
\* ValueError("No valid data found in CSV file").
load_csv(rows) ==
    LET parsed == ParseRows(rows, 1, <<>>)
    IN  IF parsed.exception # ""
        THEN [raised |-> TRUE, exception |-> parsed.exception, data |-> <<>>]
        ELSE IF parsed.data = <<>>
        THEN [raised |-> TRUE, exception |-> "ValueError", data |-> <<>>]
        ELSE [raised |-> FALSE, exception |-> "", data |-> StockDataset(parsed.data)]

get_latest_trading_day_data(rows) ==
    LET full_dataset == load_csv(rows)
    IN  IF full_dataset.raised THEN full_dataset
        ELSE [raised |-> FALSE,
              data |-> filter_by_date(full_dataset.data,
                                      get_latest_date(full_dataset.data))]

RECURSIVE CollectDays(_, _, _)
\* The for loop of get_latest_days_data: all_days_data after days i..n.
CollectDays(full, selected, i) ==
    IF i > Len(selected) THEN <<>>
    ELSE filter_by_date(full, selected[i]) \o CollectDays(full, selected, i + 1)

get_latest_days_data(rows, selected) ==
    LET full_dataset == load_csv(rows)
    IN  IF full_dataset.raised THEN full_dataset
        ELSE [raised |-> FALSE,
              data |-> StockDataset(CollectDays(full_dataset.data, selected, 1))]

\* Mutant: the list is returned newest first.
Reverse_omitted(s) == s

RECURSIVE Reverse(_)
\* list.reverse()
Reverse(s) == IF s = <<>> THEN <<>> ELSE Append(Reverse(Tail(s)), Head(s))

(***************************************************************************)
(* Indicators.  A requested indicator "ema_<period>|<colour>" is kept as   *)
(* its period, which also stands for its name f"ema_{period}".  A series   *)
(* is a list of (timestamp, value) entries; a value is <<v>>, or NoValue   *)
(* for Python's None.                                                      *)
(***************************************************************************)
NoValue == <<>>

NoIndicators == <<>>

IndicatorNames(data) == DOMAIN data

\* IndicatorParser.validate_periods_against_data
validate_periods_against_data(config, data_length) ==
    IF data_length <= 0 THEN [raised |-> TRUE, indicators |-> <<>>]
    ELSE LET valid_indicators == SelectSeq(config, LAMBDA period : period <= data_length)
         IN  IF valid_indicators = <<>>
             THEN [raised |-> TRUE, indicators |-> <<>>]
             ELSE [raised |-> FALSE, indicators |-> valid_indicators]

\* IndicatorCalculator.validate_data_sufficiency
validate_data_sufficiency(data, config) ==
    IF data = <<>> THEN [raised |-> TRUE, indicators |-> <<>>]
    ELSE LET valid_indicators == SelectSeq(config, LAMBDA period : Len(data) >= period)
         IN  IF valid_indicators = <<>>
             THEN [raised |-> TRUE, indicators |-> <<>>]
             ELSE [raised |-> FALSE, indicators |-> valid_indicators]

RECURSIVE SumClose(_, _)
SumClose(data, n) == IF n = 0 THEN 0 ELSE SumClose(data, n - 1) + data[n].close

RECURSIVE EmaAt(_, _, _)
\* talib.EMA in whole numbers: seeded with the mean of the first `period`
\* closes, then smoothed with the factor 2 / (period + 1).
EmaAt(data, period, i) ==
    IF i = period THEN SumClose(data, period) \div period
    ELSE ((period - 1) * EmaAt(data, period, i - 1) + 2 * data[i].close)
             \div (period + 1)

\* _calculate_ema: one value per close price, None where talib gives NaN.
calculate_ema(data, period) ==
    [i \in 1..Len(data) |-> IF i < period THEN NoValue
                            ELSE <<EmaAt(data, period, i)>>]

\* IndicatorCalculator.calculate_indicators: list(zip(timestamps, values))
\* under each indicator's name.
calculate_indicators(data, config) ==
    [period \in {config[k] : k \in 1..Len(config)} |->
        [i \in 1..Len(data) |->
            [timestamp |-> data[i].timestamp,
             value |-> calculate_ema(data, period)[i]]]]

\* Mutant: every entry is taken to match.
InFilteredTimestamps_all(timestamp, data) == TRUE

\* "timestamp in filtered_timestamps" (line 373): offset-aware datetimes are
\* equal, and hash alike, exactly when they denote the same instant.
InFilteredTimestamps(timestamp, data) ==
    \E j \in 1..Len(data) : Instant(data[j].timestamp) = Instant(timestamp)

\* Mutant: the first matching entry is left out.
filtered_points_skip_first(indicator_points, data, i) ==
    LET matching == SelectSeq(indicator_points,
                              LAMBDA e : InFilteredTimestamps(e.timestamp, data))
    IN  IF matching = <<>> THEN <<>> ELSE Tail(matching)

RECURSIVE filtered_points(_, _, _)
\* The list comprehension of lines 371-374, from entry i on.
filtered_points(indicator_points, data, i) ==
    IF i > Len(indicator_points) THEN <<>>
    ELSE IF InFilteredTimestamps(indicator_points[i].timestamp, data)
         THEN <<indicator_points[i]>> \o filtered_points(indicator_points, data, i + 1)
         ELSE filtered_points(indicator_points, data, i + 1)

\* Lines 363-381 of main: filtered_indicators_data.
align_indicators(ind_data, data) ==
    IF IndicatorNames(ind_data) # {} /\ data # <<>>
    THEN [name \in IndicatorNames(ind_data) |-> filtered_points(ind_data[name], data, 1)]
    ELSE NoIndicators

\* Mutant: the first entry of a timestamp wins.
indicator_map_get_first(data_points, timestamp, n) ==
    LET same == SelectSeq(data_points,
                          LAMBDA e : Instant(e.timestamp) = Instant(timestamp))
    IN  IF same = <<>> THEN NoValue ELSE same[1].value

RECURSIVE indicator_map_get(_, _, _)
\* {timestamp: value for timestamp, value in data_points}.get(timestamp),
\* over the first n entries: a later entry of the same instant replaces an
\* earlier one, and a timestamp without entry gives None.
indicator_map_get(data_points, timestamp, n) ==
    IF n = 0 THEN NoValue
    ELSE IF Instant(data_points[n].timestamp) = Instant(timestamp)
         THEN data_points[n].value
         ELSE indicator_map_get(data_points, timestamp, n - 1)

\* IndicatorRenderer.prepare_indicators_for_json
prepare_indicators_for_json(ind_data, data) ==
    IF IndicatorNames(ind_data) = {} \/ data = <<>> THEN <<>>
    ELSE [i \in 1..Len(data) |->
            [name \in IndicatorNames(ind_data) |->
                indicator_map_get(ind_data[name], data[i].timestamp,
                                  Len(ind_data[name]))]]

(***************************************************************************)
(* Inputs.  The file's rows are taken from TimestampPool, which is not    *)
(* listed in chronological order, so that the file is not either.          *)
(***************************************************************************)
NoNaive == [date |-> NoDate, hour |-> 0]

\* Nothing has been exported.
NoJson ==
    [metadata |-> [days_requested |-> 0, data_points_count |-> 0,
                   time_range |-> [start |-> NoNaive, end |-> NoNaive]],
     data |-> <<>>]

\* Mutant: the records carry the instant, as hours of the UTC time axis.
create_json_structure_utc(data, days_requested) ==
    [metadata |-> [days_requested |-> days_requested,
                   data_points_count |-> Len(data),
                   time_range |->
                       [start |-> replace_tzinfo_none(data[1].timestamp),
                        end |-> replace_tzinfo_none(data[Len(data)].timestamp)]],
     data |-> [i \in 1..Len(data) |->
                  [timestamp |-> [date |-> data[i].timestamp.date,
                                  hour |-> data[i].timestamp.hour
                                           - data[i].timestamp.off],
                   close |-> data[i].close]]]

\* JSONExporter._create_json_structure on a non-empty dataset: the metadata
\* that depends on the dataset, and one record per point.
create_json_structure(data, days_requested) ==
    [metadata |-> [days_requested |-> days_requested,
                   data_points_count |-> Len(data),
                   time_range |->
                       [start |-> replace_tzinfo_none(data[1].timestamp),
                        end |-> replace_tzinfo_none(data[Len(data)].timestamp)]],
     data |-> [i \in 1..Len(data) |->
                  [timestamp |-> replace_tzinfo_none(data[i].timestamp),
                   close |-> data[i].close]]]

D0 == Date(2024, 2, 29)
D1 == Date(2024, 3, 1)

TimestampPool ==
    << Timestamp(D1, 17, 0),   \* an hour after the close of D1
       Timestamp(D1, 16, 0),   \* exactly the close of D1
       Timestamp(D1, 11, 3),   \* exactly the open of D1, written at UTC+3
       Timestamp(D1, 1, 3),    \* local date D1, instant 22:00 UTC of D0
       Timestamp(D0, 23, 0),   \* after the close of D0
       Timestamp(D0, 12, 0),   \* inside the session of D0
       Timestamp(D0, 7, 0) >>  \* an hour before the open of D0

\* Non-decreasing index sequences: which pool entry each row carries.
RowChoices ==
    UNION { { f \in [1..n -> 1..Len(TimestampPool)] :
                \A i \in 1..(n - 1) : f[i] <= f[i + 1] } : n \in 0..MaxRows }

\* Row i of the file, parsed; its close price is the row number.
RowsOf(f) == [i \in 1..Len(f) |-> Row("ok", TimestampPool[f[i]], i)]

ExceptionDates == {Date(2024, 2, 28), D0, D1}

Calendars == [base_open : BOOLEAN, exceptions : SUBSET ExceptionDates]

DaysChoices == (-1)..MaxDays

NoCall == [called |-> FALSE, input |-> <<>>, date |-> NoDate,
           raised |-> FALSE, output |-> <<>>]

\* No data is loaded, selected or filtered yet.
NothingLoaded ==
    /\ filtered_indicators_data = NoIndicators
    /\ indicators_for_json = <<>>
    /\ dataset = <<>>
    /\ latest_date = NoDate
    /\ trading_days = <<>>
    /\ current_date = NoDate
    /\ days_checked = 0
    /\ day_index = 0
    /\ all_filtered_data = <<>>
    /\ filtered_data = <<>>
    /\ last_filter = NoCall
    /\ queries = 0
    /\ sink_data = <<>>
    /\ error = ""
    /\ exit_code = -1
    /\ log = {}
    /\ json_structure = NoJson
    /\ chart_data = <<>>

\* The state main() starts in, whatever the command line and the file.
Started ==
    /\ pc = "validate"
    /\ events = <<>>
    /\ indicators_data = NoIndicators
    /\ NothingLoaded

\* Runs on an existing .csv file and a known exchange, without --indicators,
\* --lines and --output.
Init ==
    /\ csv \in { RowsOf(f) : f \in RowChoices }
    /\ days \in DaysChoices
    /\ calendar \in Calendars
    /\ input_path = "ok"
    /\ exchange_known = TRUE
    /\ indicators = <<>>
    /\ output = ""
    /\ lines = ""
    /\ Started

\* Mutant: the failure is logged and the process exits with code 0.
Exit1_code_0(message) ==
    /\ pc' = "done"
    /\ error' = message
    /\ exit_code' = 0

\* sys.exit(1) after logger.error(message)
Exit1(message) ==
    /\ pc' = "done"
    /\ error' = message
    /\ exit_code' = 1

(***************************************************************************)
(* main()                                                                  *)
(***************************************************************************)
\* Mutant: the exchange code is not validated.
ValidateInputs_exchange_unchecked ==
    /\ pc = "validate"
    /\ IF input_path = "missing"
       THEN events' = <<"exists">> /\ Exit1("Input file not found")
       ELSE IF input_path = "not_csv"
       THEN events' = <<"exists">> /\ Exit1("Input file must be a CSV file")
       ELSE IF output = "bad"
       THEN events' = <<"exists", "exchange_valid">>
            /\ Exit1("Invalid output path")
       ELSE /\ events' = <<"exists", "exchange_valid">>
            /\ pc' = "indicators"
            /\ UNCHANGED <<error, exit_code>>
    /\ UNCHANGED <<args, log, json_structure, chart_data, indicator_results, csv, days, calendar, dataset,
                   latest_date, trading_days, current_date, days_checked,
                   day_index, all_filtered_data, filtered_data, last_filter,
                   queries, sink_data>>

\* validate_inputs(args) and the construction of the components (lines
\* 197-204).  Path.exists() looks the input file up; nothing is read.
ValidateInputs ==
    /\ pc = "validate"
    /\ IF input_path = "missing"
       THEN events' = <<"exists">> /\ Exit1("Input file not found")
       ELSE IF input_path = "not_csv"
       THEN events' = <<"exists">> /\ Exit1("Input file must be a CSV file")
       ELSE IF ~exchange_known
       THEN events' = <<"exists", "exchange_invalid">>
            /\ Exit1("Invalid exchange code")
       ELSE IF output = "bad"
       THEN events' = <<"exists", "exchange_valid">>
            /\ Exit1("Invalid output path")
       ELSE /\ events' = <<"exists", "exchange_valid">>
            /\ pc' = "indicators"
            /\ UNCHANGED <<error, exit_code>>
    /\ UNCHANGED <<args, log, json_structure, chart_data, indicator_results, csv, days, calendar, dataset,
                   latest_date, trading_days, current_date, days_checked,
                   day_index, all_filtered_data, filtered_data, last_filter,
                   queries, sink_data>>

\* csv_reader.load_all_data(args.input) (line 218): CSVReader defines
\* __init__, parse_datetime, load_csv, get_latest_trading_day_data and
\* get_latest_days_data only, so the attribute lookup raises AttributeError
\* and nothing is read.
load_all_data(rows) ==
    [raised |-> TRUE, exception |-> "AttributeError", data |-> <<>>]

\* Mutant: nothing is checked, the indicators are calculated on what is there.
process_indicators_unchecked(full_dataset, config) ==
    [raised |-> FALSE, data |-> calculate_indicators(full_dataset.data, config)]

\* Lines 218-236 once full_dataset is there: the periods are checked against
\* its length, then the indicators are calculated over all of it.
process_indicators(full_dataset, config) ==
    IF full_dataset.raised \/ full_dataset.data = <<>>
    THEN [raised |-> TRUE, data |-> NoIndicators]
    ELSE LET checked == validate_periods_against_data(config, Len(full_dataset.data))
         IN  IF checked.raised THEN [raised |-> TRUE, data |-> NoIndicators]
             ELSE LET sufficient == validate_data_sufficiency(full_dataset.data,
                                                               checked.indicators)
                  IN  IF sufficient.raised
                      THEN [raised |-> TRUE, data |-> NoIndicators]
                      ELSE [raised |-> FALSE,
                            data |-> calculate_indicators(full_dataset.data,
                                                          sufficient.indicators)]

\* "if args.indicators:" (lines 206-251); every exception of the block ends
\* in sys.exit(1).
ProcessIndicators ==
    /\ pc = "indicators"
    /\ IF indicators = <<>>
       THEN pc' = "load" /\ UNCHANGED <<indicators_data, error, exit_code>>
       ELSE LET processed == process_indicators(load_all_data(csv), indicators)
            IN  IF processed.raised
                THEN Exit1("Failed to process indicators")
                     /\ UNCHANGED indicators_data
                ELSE /\ indicators_data' = processed.data
                     /\ pc' = "load"
                     /\ UNCHANGED <<error, exit_code>>
    /\ UNCHANGED <<args, log, json_structure, chart_data, events, filtered_indicators_data, indicators_for_json,
                   csv, days, calendar, dataset, latest_date, trading_days,
                   current_date, days_checked, day_index, all_filtered_data,
                   filtered_data, last_filter, queries, sink_data>>

\* Both modes first load the latest day of the file (lines 256-285).
LoadLatest ==
    /\ pc = "load"
    /\ LET loaded == get_latest_trading_day_data(csv)
       IN  IF loaded.raised
           THEN Exit1("Unexpected error") /\ UNCHANGED <<dataset, latest_date>>
           ELSE IF loaded.data = <<>>
           THEN Exit1("No data found in CSV file") /\ UNCHANGED <<dataset, latest_date>>
           ELSE IF get_latest_date(loaded.data) = NoDate
           THEN Exit1("No valid dates found in the dataset")
                /\ UNCHANGED <<dataset, latest_date>>
           ELSE /\ latest_date' = get_latest_date(loaded.data)
                /\ dataset' = IF days = 1 THEN loaded.data ELSE dataset
                /\ pc' = IF days = 1 THEN "filter_single" ELSE "select"
                /\ UNCHANGED <<error, exit_code>>
    /\ events' = Append(events, "read")
    /\ UNCHANGED <<args, log, json_structure, chart_data, indicator_results, csv, days, calendar, trading_days,
                   current_date, days_checked, day_index, all_filtered_data,
                   filtered_data, last_filter, queries, sink_data>>

\* Mutant: the reference date is looked up before the count is tested.
SelectBegin_lookup_first ==
    /\ pc = "select"
    /\ trading_days' = <<>>
    /\ queries' = queries + 1
    /\ IF days <= 0
       THEN pc' = "selected" /\ UNCHANGED <<current_date, days_checked>>
       ELSE /\ current_date' = latest_date
            /\ days_checked' = 0
            /\ pc' = "walk"
    /\ UNCHANGED <<args, log, json_structure, chart_data, indicator_results, events, csv, days, calendar, dataset, latest_date, day_index,
                   all_filtered_data, filtered_data, last_filter, sink_data,
                   error, exit_code>>

\* get_latest_trading_days(latest_date, args.days), up to the while loop.
SelectBegin ==
    /\ pc = "select"
    /\ trading_days' = <<>>
    /\ IF days <= 0
       THEN pc' = "selected" /\ UNCHANGED <<current_date, days_checked>>
       ELSE /\ current_date' = latest_date
            /\ days_checked' = 0
            /\ pc' = "walk"
    /\ UNCHANGED <<args, log, json_structure, chart_data, indicator_results, events, csv, days, calendar, dataset, latest_date, day_index,
                   all_filtered_data, filtered_data, last_filter, queries,
                   sink_data, error, exit_code>>

\* Mutant: the safety limit is tested with <=.
WalkContinues_off_by_one ==
    Len(trading_days) < days /\ days_checked <= days * 10

\* The while condition of get_latest_trading_days.
WalkContinues ==
    Len(trading_days) < days /\ days_checked < days * 10

\* One iteration of the while loop.
WalkStep ==
    /\ pc = "walk"
    /\ WalkContinues
    /\ trading_days' = IF is_trading_day(calendar, current_date)
                       THEN Append(trading_days, current_date)
                       ELSE trading_days
    /\ queries' = queries + 1
    /\ log' = log \cup get_trading_hours_log(calendar, current_date)
    /\ current_date' = previous_day(current_date)
    /\ days_checked' = days_checked + 1
    /\ UNCHANGED <<args, json_structure, chart_data, indicator_results, events, csv, days, calendar, pc, dataset, latest_date, day_index,
                   all_filtered_data, filtered_data, last_filter, sink_data,
                   error, exit_code>>

\* The loop is left: reverse and return.
WalkReturn ==
    /\ pc = "walk"
    /\ ~WalkContinues
    /\ trading_days' = Reverse(trading_days)
    /\ log' = log \cup {LogEntry("Found trading days", latest_date)}
    /\ pc' = "selected"
    /\ UNCHANGED <<args, json_structure, chart_data, indicator_results, events, csv, days, calendar, dataset, latest_date, current_date,
                   days_checked, day_index, all_filtered_data, filtered_data,
                   last_filter, queries, sink_data, error, exit_code>>

\* Mutant: any selection shorter than requested is refused.
NoTradingDays_short(selected) == Len(selected) < days

\* "if not trading_days" (line 290)
NoTradingDays(selected) == selected = <<>>

\* Multi-day mode after the selection returned (lines 290-301).
LoadDays ==
    /\ pc = "selected"
    /\ IF NoTradingDays(trading_days)
       THEN Exit1("Could not find trading days") /\ UNCHANGED <<dataset, events>>
       ELSE LET loaded == get_latest_days_data(csv, trading_days)
            IN  /\ events' = Append(events, "read")
                /\ IF loaded.raised
                   THEN Exit1("Unexpected error") /\ UNCHANGED dataset
                   ELSE /\ dataset' = loaded.data
                        /\ IF loaded.data = <<>>
                           THEN Exit1("No data found for the specified trading days")
                           ELSE pc' = "filter_multi" /\ UNCHANGED <<error, exit_code>>
    /\ day_index' = 1
    /\ all_filtered_data' = <<>>
    /\ UNCHANGED <<args, log, json_structure, chart_data, indicator_results, csv, days, calendar, latest_date,
                   trading_days, current_date, days_checked, filtered_data,
                   last_filter, queries, sink_data>>

\* What main logs about the result of one filter_trading_hours call on
\* target_date: a warning when the call raised (lines 328-332, 352-354), a
\* warning when it returned an empty dataset (lines 323-325, 349-351).
FallbackLog(result, target_date) ==
    IF result.raised
    THEN {LogEntry("Exchange closed, using all data", target_date)}
    ELSE IF result.data = <<>>
    THEN {LogEntry("No trading hours data, using all data", target_date)}
    ELSE {}

\* What a call of filter_trading_hours leaves behind.
Call(input, target_date, result) ==
    [called |-> TRUE, input |-> input, date |-> target_date,
     raised |-> result.raised, output |-> result.data]

\* Mutant: an empty trading-hours result is kept.
WithFallback_closed_only(unfiltered, result) ==
    IF result.raised THEN unfiltered ELSE result.data

\* What main keeps of one filter_trading_hours call: the trading-hours data,
\* or all of `unfiltered` when the call raised or returned an empty dataset.
WithFallback(unfiltered, result) ==
    IF result.raised THEN unfiltered
    ELSE IF result.data = <<>> THEN unfiltered
    ELSE result.data

\* Mutant: the loaded dataset is filtered in place.
FilterSingle_in_place ==
    /\ pc = "filter_single"
    /\ LET result == filter_trading_hours(calendar, dataset, latest_date)
       IN  /\ last_filter' = Call(dataset, latest_date, result)
           /\ filtered_data' = WithFallback(dataset, result)
           /\ dataset' = WithFallback(dataset, result)
           /\ log' = log \cup get_trading_hours_log(calendar, latest_date)
                          \cup FallbackLog(result, latest_date)
    /\ queries' = queries + 1
    /\ pc' = "filtered"
    /\ UNCHANGED <<args, json_structure, chart_data, indicator_results, events, csv, days, calendar,
                   latest_date, trading_days, current_date, days_checked,
                   day_index, all_filtered_data, sink_data, error, exit_code>>

\* Single-day filtering (lines 311-332).
FilterSingle ==
    /\ pc = "filter_single"
    /\ LET result == filter_trading_hours(calendar, dataset, latest_date)
       IN  /\ last_filter' = Call(dataset, latest_date, result)
           /\ filtered_data' = WithFallback(dataset, result)
           /\ log' = log \cup get_trading_hours_log(calendar, latest_date)
                          \cup FallbackLog(result, latest_date)
    /\ queries' = queries + 1
    /\ pc' = "filtered"
    /\ UNCHANGED <<args, json_structure, chart_data, indicator_results, events, csv, days, calendar, dataset, latest_date, trading_days,
                   current_date, days_checked, day_index, all_filtered_data,
                   sink_data, error, exit_code>>

\* One iteration of the multi-day for loop (lines 338-354).
FilterDay ==
    /\ pc = "filter_multi"
    /\ day_index <= Len(trading_days)
    /\ LET trading_day == trading_days[day_index]
           day_dataset == filter_by_date(dataset, trading_day)
           result == filter_trading_hours(calendar, day_dataset, trading_day)
       IN  IF day_dataset = <<>>
           THEN UNCHANGED <<all_filtered_data, last_filter, queries, log>>
           ELSE /\ last_filter' = Call(day_dataset, trading_day, result)
                /\ queries' = queries + 1
                /\ log' = log \cup get_trading_hours_log(calendar, trading_day)
                               \cup FallbackLog(result, trading_day)
                /\ all_filtered_data' =
                       all_filtered_data \o WithFallback(day_dataset, result)
    /\ day_index' = day_index + 1
    /\ UNCHANGED <<args, json_structure, chart_data, indicator_results, events, csv, days, calendar, pc, dataset, latest_date, trading_days,
                   current_date, days_checked, filtered_data, sink_data, error,
                   exit_code>>

\* After the for loop (lines 356-357).
CombineDays ==
    /\ pc = "filter_multi"
    /\ day_index > Len(trading_days)
    /\ filtered_data' = IF all_filtered_data # <<>>
                        THEN StockDataset(all_filtered_data)
                        ELSE dataset
    /\ pc' = "filtered"
    /\ UNCHANGED <<args, log, json_structure, chart_data, indicator_results, events, csv, days, calendar, dataset, latest_date, trading_days,
                   current_date, days_checked, day_index, all_filtered_data,
                   last_filter, queries, sink_data, error, exit_code>>

\* The emptiness check and the alignment of the indicators with the
\* displayed data (lines 359-381).
AlignIndicators ==
    /\ pc = "filtered"
    /\ IF filtered_data = <<>>
       THEN Exit1("No data available during trading hours")
            /\ UNCHANGED filtered_indicators_data
       ELSE /\ filtered_indicators_data' =
                   align_indicators(indicators_data, filtered_data)
            /\ pc' = "aligned"
            /\ UNCHANGED <<error, exit_code>>
    /\ UNCHANGED <<args, log, json_structure, chart_data, events, indicators_data, indicators_for_json, csv,
                   days, calendar, dataset, latest_date, trading_days,
                   current_date, days_checked, day_index, all_filtered_data,
                   filtered_data, last_filter, queries, sink_data>>

\* json_exporter.export_to_json(dataset=..., indicators_data=...) (lines
\* 434-441): export_to_json(self, dataset, output_path, exchange_code, days,
\* metadata) has no parameter indicators_data, so the call raises TypeError
\* before anything is written.
export_to_json(data, indicator_rows) ==
    [raised |-> TRUE, exception |-> "TypeError", written |-> NoJson]

\* LineParser.parse_lines(args.lines): a specification that is not a list
\* of "label|value|color|width" with a numeric value raises ValueError.
parse_lines(spec) == [raised |-> spec = "bad"]

\* The horizontal lines, then export or display of filtered_data (lines
\* 383-489).
Deliver ==
    /\ pc = "aligned"
    /\ IF lines # "" /\ parse_lines(lines).raised
       THEN /\ Exit1("Failed to process horizontal lines")
            /\ UNCHANGED <<sink_data, indicators_for_json, json_structure,
                           chart_data>>
       ELSE IF output # ""
       THEN /\ indicators_for_json' =
                   IF IndicatorNames(filtered_indicators_data) # {}
                   THEN prepare_indicators_for_json(filtered_indicators_data,
                                                    filtered_data)
                   ELSE <<>>
            /\ LET exported == export_to_json(filtered_data, indicators_for_json')
               IN  IF exported.raised
                   THEN /\ Exit1("Unexpected error")
                        /\ UNCHANGED <<sink_data, json_structure>>
                   ELSE /\ sink_data' = filtered_data
                        /\ json_structure' = exported.written
                        /\ pc' = "done"
                        /\ exit_code' = 0
                        /\ UNCHANGED error
            /\ UNCHANGED chart_data
       ELSE /\ sink_data' = filtered_data
            /\ chart_data' = to_lightweight_charts_format(filtered_data)
            /\ pc' = "done"
            /\ exit_code' = 0
            /\ UNCHANGED <<error, indicators_for_json, json_structure>>
    /\ UNCHANGED <<args, log, events, indicators_data,
                   filtered_indicators_data, csv, days, calendar, dataset,
                   latest_date, trading_days, current_date, days_checked,
                   day_index, all_filtered_data, filtered_data, last_filter,
                   queries>>

\* export_to_json as its own parameters allow it to be called (lines 41-73):
\* an empty dataset raises ValueError, any other is put into the structure
\* that json.dump writes.
ExportToJson ==
    /\ pc = "export"
    /\ IF filtered_data = <<>>
       THEN Exit1("Failed to export data to JSON")
            /\ UNCHANGED <<sink_data, json_structure>>
       ELSE /\ json_structure' = create_json_structure(filtered_data, days)
            /\ sink_data' = filtered_data
            /\ pc' = "done"
            /\ exit_code' = 0
            /\ UNCHANGED error
    /\ UNCHANGED <<args, log, chart_data, indicator_results, events, csv, days,
                   calendar, dataset, latest_date, trading_days, current_date,
                   days_checked, day_index, all_filtered_data, filtered_data,
                   last_filter, queries>>

\* Ctrl-C while main() runs: KeyboardInterrupt reaches "except
\* KeyboardInterrupt" (lines 491-493), which logs and calls sys.exit(0).
Interrupt ==
    /\ pc # "done"
    /\ pc' = "done"
    /\ exit_code' = 0
    /\ events' = Append(events, "interrupt")
    /\ UNCHANGED <<args, log, json_structure, chart_data, indicator_results,
                   csv, days, calendar, dataset, latest_date, trading_days,
                   current_date, days_checked, day_index, all_filtered_data,
                   filtered_data, last_filter, queries, sink_data, error>>

\* main() from the loading of the displayed data on (line 253).
Pipeline ==
    \/ LoadLatest
    \/ SelectBegin
    \/ WalkStep
    \/ WalkReturn
    \/ LoadDays
    \/ FilterSingle
    \/ FilterDay
    \/ CombineDays
    \/ AlignIndicators
    \/ Deliver

Next ==
    \/ ValidateInputs
    \/ ProcessIndicators
    \/ Pipeline

Spec == Init /\ [][Next]_vars

\* Runs over two fixed files, for the properties of the walk alone, which
\* reads nothing of the file but its latest date.
WalkInit ==
    /\ Init
    /\ csv \in { RowsOf(<<2>>), RowsOf(<<2, 6>>) }

\* main() is one synchronous thread: a step that can be taken is taken.
WalkSpec == WalkInit /\ [][Next]_vars /\ WF_vars(Next)

\* Which pool entry the rows of the files of StartupInit carry.
RawPool == <<2, 6>>

RowKinds == {"ok", "unparseable", "no_offset", "no_timestamp"}

\* Row i of a file, of the given kind; the date and time of a "no_offset" row
\* would parse to a naive datetime.
RawRow(kind, ts, i) ==
    Row(kind, IF kind = "no_offset" THEN [ts EXCEPT !.off = NoOffset] ELSE ts, i)

\* Files of up to Len(RawPool) rows of every kind.
RawFiles ==
    UNION { { [i \in 1..n |-> RawRow(kinds[i], TimestampPool[RawPool[i]], i)] :
                kinds \in [1..n -> RowKinds] } : n \in 0..Len(RawPool) }

\* Every command line, over a few files and two calendars.
StartupInit ==
    /\ csv \in RawFiles
    /\ days \in 1..MaxDays
    /\ calendar \in [base_open : {TRUE}, exceptions : {{}, {D1}}]
    /\ input_path \in {"ok", "not_csv", "missing"}
    /\ exchange_known \in BOOLEAN
    /\ indicators \in {<<>>, <<2>>}
    /\ output \in {"", "ok", "bad"}
    /\ lines \in {"", "ok", "bad"}
    /\ Started

StartupSpec == StartupInit /\ [][Next]_vars

IndicatorChoices == {<<2>>, <<2, 3>>}

\* The steps after the indicator block, on indicator series over the full
\* history of the file.  Line 218 never delivers that history (see
\* load_all_data), so the series are put in place here as lines 220-236
\* compute them from all rows of the file, and main() goes on from line 253.
AlignInit ==
    /\ csv \in { RowsOf(f) : f \in RowChoices }
    /\ days \in 1..MaxDays
    /\ calendar \in [base_open : {TRUE}, exceptions : SUBSET {D0, D1}]
    /\ input_path = "ok"
    /\ exchange_known = TRUE
    /\ indicators \in IndicatorChoices
    /\ output \in {"", "ok"}
    /\ lines = ""
    /\ ~process_indicators(load_csv(csv), indicators).raised
    /\ pc = "load"
    /\ events = <<"exists", "exchange_valid">>
    /\ indicators_data = process_indicators(load_csv(csv), indicators).data
    /\ NothingLoaded

AlignSpec == AlignInit /\ [][Pipeline]_vars

\* The runs of StartupSpec, with a Ctrl-C possible at every step.
InterruptSpec == StartupInit /\ [][Next \/ Interrupt]_vars

\* Timestamps written at different UTC offsets in one file.
OffsetPool ==
    << Timestamp(D1, 16, 0),    \* exactly the close of D1
       Timestamp(D1, 2, 12),    \* local date D1, instant 14:00 UTC of D0
       Timestamp(D0, 14, 0),    \* the same instant, local date D0
       Timestamp(D0, 14, 12),   \* the same wall clock, instant 02:00 UTC of D0
       Timestamp(D0, 12, 0) >>  \* inside the session of D0

OffsetChoices ==
    UNION { { f \in [1..n -> 1..Len(OffsetPool)] :
                \A i \in 1..(n - 1) : f[i] <= f[i + 1] } : n \in 0..MaxRows }

OffsetRowsOf(f) == [i \in 1..Len(f) |-> Row("ok", OffsetPool[f[i]], i)]

\* AlignInit over the files of OffsetPool.
OffsetInit ==
    /\ csv \in { OffsetRowsOf(f) : f \in OffsetChoices }
    /\ days \in 1..MaxDays
    /\ calendar \in [base_open : {TRUE}, exceptions : SUBSET {D0, D1}]
    /\ input_path = "ok"
    /\ exchange_known = TRUE
    /\ indicators \in IndicatorChoices
    /\ output \in {"", "ok"}
    /\ lines = ""
    /\ ~process_indicators(load_csv(csv), indicators).raised
    /\ pc = "load"
    /\ events = <<"exists", "exchange_valid">>
    /\ indicators_data = process_indicators(load_csv(csv), indicators).data
    /\ NothingLoaded

OffsetSpec == OffsetInit /\ [][Pipeline]_vars

\* export_to_json on every dataset of up to MaxRows points of OffsetPool.
ExportInit ==
    /\ csv \in { OffsetRowsOf(f) : f \in OffsetChoices }
    /\ days \in 1..MaxDays
    /\ calendar = [base_open |-> TRUE, exceptions |-> {}]
    /\ input_path = "ok"
    /\ exchange_known = TRUE
    /\ indicators = <<>>
    /\ output = "ok"
    /\ lines = ""
    /\ pc = "export"
    /\ events = <<"exists", "exchange_valid", "read">>
    /\ indicators_data = NoIndicators
    /\ filtered_indicators_data = NoIndicators
    /\ indicators_for_json = <<>>
    /\ dataset = <<>>
    /\ latest_date = NoDate
    /\ trading_days = <<>>
    /\ current_date = NoDate
    /\ days_checked = 0
    /\ day_index = 0
    /\ all_filtered_data = <<>>
    /\ filtered_data = StockDataset(PointsOfFile(csv))
    /\ last_filter = NoCall
    /\ queries = 0
    /\ sink_data = <<>>
    /\ error = ""
    /\ exit_code = -1
    /\ log = {}
    /\ json_structure = NoJson
    /\ chart_data = <<>>

ExportSpec == ExportInit /\ [][ExportToJson]_vars

\* The dates the walk starts from: 1 March of a leap year, of a common year
\* and of the century years 1900 and 2000, 1 January, and the first days after
\* a month of 30 and of 31 days.
WalkDates ==
    { Date(2024, 3, 1), Date(2023, 3, 1), Date(1900, 3, 1), Date(2000, 3, 1),
      Date(2024, 1, 1), Date(2024, 5, 1), Date(2024, 8, 1), Date(2024, 12, 1) }

\* Runs on a file of one row on each of WalkDates, on an exchange that is
\* always open and on one that is always closed.
DateInit ==
    /\ csv \in { <<Row("ok", Timestamp(d, 12, 0), 1)>> : d \in WalkDates }
    /\ days \in 1..MaxDays
    /\ calendar \in [base_open : BOOLEAN, exceptions : {{}}]
    /\ input_path = "ok"
    /\ exchange_known = TRUE
    /\ indicators = <<>>
    /\ output = ""
    /\ lines = ""
    /\ Started

DateSpec == DateInit /\ [][Next]_vars

(***************************************************************************)
(* Vocabulary of the properties.                                           *)
(***************************************************************************)
\* Every date of the first quarter of 2024, the range the walk can reach.
QuarterDates ==
    { Date(2024, m, d) : m \in 1..3, d \in 1..31 } \
        { Date(2024, 2, 30), Date(2024, 2, 31) }

\* main holds the selection returned by get_latest_trading_days.
SelectionReturned == days # 1 /\ pc \in {"selected", "filter_multi", "filtered"}

\* The calendar days the walk may examine: the days * 10 days ending at latest_date.
Window ==
    { d \in QuarterDates : /\ toordinal(d) <= toordinal(latest_date)
                           /\ toordinal(d) > toordinal(latest_date) - days * 10 }

TradingDaysInWindow == { d \in Window : get_trading_hours(calendar, d) # NoHours }

Elements(s) == { s[i] : i \in 1..Len(s) }

\* point lies in the session of date d: open <= t <= close.
InSession(point, d) ==
    LET hours == get_trading_hours(calendar, d)
    IN  /\ hours # NoHours
        /\ hours[1] <= Instant(point.timestamp)
        /\ Instant(point.timestamp) <= hours[2]

\* The sub-sequence of data lying in the session of d.
SessionPart(data, d) ==
    LET Test(point) == InSession(point, d) IN SelectSeq(data, Test)

(***************************************************************************)
(* C1: filter_trading_hours, on a date the exchange is open, returns       *)
(* exactly the sub-sequence of its input whose timestamps lie in           *)
(* [open, close], both ends included.                                      *)
(***************************************************************************)
C1_FilterIsSessionSubsequence ==
    (last_filter.called /\ get_trading_hours(calendar, last_filter.date) # NoHours)
        => last_filter.output = SessionPart(last_filter.input, last_filter.date)

\* A call that kept a point at exactly the close and dropped a later one.
C1_Witness ==
    /\ last_filter.called
    /\ ~last_filter.raised
    /\ \E i \in 1..Len(last_filter.output) :
           Instant(last_filter.output[i].timestamp)
               = get_trading_hours(calendar, last_filter.date)[2]
    /\ \E i \in 1..Len(last_filter.input) :
           Instant(last_filter.input[i].timestamp)
               > get_trading_hours(calendar, last_filter.date)[2]

(***************************************************************************)
(* C2: get_latest_trading_days returns at most num_days dates (none when   *)
(* num_days is not positive), each strictly later than the one before it,  *)
(* none later than the reference date, every one a trading day.            *)
(***************************************************************************)
C2_SelectionOrderedTradingDays ==
    SelectionReturned =>
        /\ Len(trading_days) <= (IF days > 0 THEN days ELSE 0)
        /\ \A i \in 1..(Len(trading_days) - 1) :
               DateLT(trading_days[i], trading_days[i + 1])
        /\ \A i \in 1..Len(trading_days) :
               /\ DateLE(trading_days[i], latest_date)
               /\ get_trading_hours(calendar, trading_days[i]) # NoHours

\* Two dates were returned.
C2_Witness == pc = "selected" /\ Len(trading_days) >= 2

(***************************************************************************)
(* C3: when the examined window holds at least num_days trading days, the  *)
(* result is exactly the num_days most recent trading days at or before    *)
(* the reference date.                                                     *)
(***************************************************************************)
C3_MostRecentTradingDays ==
    (pc = "selected" /\ days > 0 /\ Cardinality(TradingDaysInWindow) >= days)
        => /\ Len(trading_days) = days
           /\ Elements(trading_days) =
                  { d \in TradingDaysInWindow :
                      Cardinality({ e \in TradingDaysInWindow : DateLT(d, e) }) < days }

\* A closed day was skipped: the dates returned span more calendar days than
\* there are dates.
C3_Witness ==
    /\ pc = "selected"
    /\ Len(trading_days) = days
    /\ days >= 2
    /\ toordinal(trading_days[Len(trading_days)]) - toordinal(trading_days[1]) + 1 > days

(***************************************************************************)
(* C4: for num_days > 0 the backward walk ends after examining at most     *)
(* num_days * 10 calendar days, whatever the calendar; when it found fewer *)
(* than num_days trading days it returns the ones it found, which are all  *)
(* the trading days of the examined window.                                *)
(***************************************************************************)
C4_WalkBounded ==
    /\ pc = "walk" => /\ days_checked <= days * 10
                      /\ queries = days_checked
    /\ (pc = "selected" /\ days > 0 /\ Len(trading_days) < days)
           => /\ days_checked = days * 10
              /\ Elements(trading_days) = TradingDaysInWindow

C4_WalkTerminates ==
    /\ []C4_WalkBounded
    /\ (pc = "walk") ~> (pc = "selected")

\* The walk gave up on a calendar with too few trading days.
C4_Witness ==
    /\ pc = "selected"
    /\ days > 0
    /\ Len(trading_days) < days
    /\ days_checked = days * 10

C6_NonPositiveCountSelectsNothing ==
    (pc = "selected" /\ days <= 0)
        => (trading_days = <<>> /\ queries = 0 /\ days_checked = 0)

\* The selection returned for a negative count.
C6_Witness == pc = "selected" /\ days < 0

(***************************************************************************)
(* C7: filter_trading_hours raises exactly when get_trading_hours gives no *)
(* boundary for the date, and then returns no dataset; with a boundary it  *)
(* returns a dataset, an empty one when no point lies inside, and does not *)
(* raise.                                                                  *)
(***************************************************************************)
C7_ClosedRaisesEmptyReturns ==
    last_filter.called =>
        /\ last_filter.raised
               <=> (get_trading_hours(calendar, last_filter.date) = NoHours)
        /\ last_filter.raised => last_filter.output = <<>>
        /\ (~last_filter.raised /\ \A i \in 1..Len(last_filter.input) :
                                     ~InSession(last_filter.input[i], last_filter.date))
               => last_filter.output = <<>>
        /\ (\E i \in 1..Len(last_filter.input) :
                InSession(last_filter.input[i], last_filter.date))
               => last_filter.output # <<>>

\* The exchange was open and no point of the input lay inside the session.
C7_Witness ==
    /\ last_filter.called
    /\ ~last_filter.raised
    /\ last_filter.input # <<>>
    /\ last_filter.output = <<>>

(***************************************************************************)
(* C8: in single-day mode the data handed on is the unfiltered latest-day  *)
(* dataset when the exchange is closed on the latest date or no point of   *)
(* the day lies inside the session, and the trading-hours part of that     *)
(* dataset otherwise.                                                      *)
(***************************************************************************)
SingleDayExpected ==
    IF get_trading_hours(calendar, latest_date) = NoHours
           \/ SessionPart(dataset, latest_date) = <<>>
    THEN dataset
    ELSE SessionPart(dataset, latest_date)

C8_SingleDayFallback ==
    /\ (days = 1 /\ pc = "filtered") => filtered_data = SingleDayExpected
    /\ (days = 1 /\ pc = "done" /\ exit_code = 0) => sink_data = SingleDayExpected

\* The exchange was open but the day's points all lay outside the session.
C8_Witness ==
    /\ days = 1
    /\ pc = "done"
    /\ exit_code = 0
    /\ get_trading_hours(calendar, latest_date) # NoHours
    /\ SessionPart(dataset, latest_date) = <<>>
    /\ sink_data = dataset

(***************************************************************************)
(* Multi-day mode: what each selected day contributes.                     *)
(***************************************************************************)
\* The points of data whose local date is d, in the order of data.
DateSlice(data, d) ==
    LET Test(point) == point.timestamp.date = d IN SelectSeq(data, Test)

\* The day's trading-hours part when there is one, else its whole slice.
DayContribution(d) ==
    IF get_trading_hours(calendar, d) = NoHours
           \/ SessionPart(DateSlice(dataset, d), d) = <<>>
    THEN DateSlice(dataset, d)
    ELSE SessionPart(DateSlice(dataset, d), d)

RECURSIVE Contributions(_)
\* The contributions of trading_days[i..], one after the other.
Contributions(i) ==
    IF i > Len(trading_days) THEN <<>>
    ELSE DayContribution(trading_days[i]) \o Contributions(i + 1)

NonDecreasing(data) ==
    \A i \in 1..(Len(data) - 1) :
        Instant(data[i].timestamp) <= Instant(data[i + 1].timestamp)

\* b holds the points of a, each as often, in some order.
SamePoints(a, b) ==
    /\ Len(a) = Len(b)
    /\ \A p \in Elements(a) \cup Elements(b) :
           Cardinality({ i \in 1..Len(a) : a[i] = p })
               = Cardinality({ i \in 1..Len(b) : b[i] = p })

C10_ChronologicalSelectedDaysOnly ==
    (days # 1 /\ pc = "filtered")
        => /\ NonDecreasing(filtered_data)
           /\ \A i \in 1..Len(filtered_data) :
                  filtered_data[i].timestamp.date \in Elements(trading_days)

\* The file held a point of a day that was not selected, between two that were.
C10_Witness ==
    /\ days # 1
    /\ pc = "filtered"
    /\ Len(filtered_data) >= 2
    /\ \E i \in 1..Len(csv) :
           /\ csv[i].timestamp.date \notin Elements(trading_days)
           /\ DateLT(trading_days[1], csv[i].timestamp.date)

(***************************************************************************)
(* C11 as stated: with a resolvable exchange, a file with a valid row and  *)
(* --days >= 1, a closed exchange or an empty trading-hours window never   *)
(* makes the run end with exit code 1.                                     *)
(***************************************************************************)
\* The exits that a closed date or an empty session window leads to.
ClosureErrors ==
    { "Could not find trading days",
      "No data found for the specified trading days",
      "No data available during trading hours" }

C11_ClosureNeverExits ==
    (days >= 1 /\ csv # <<>> /\ pc = "done" /\ exit_code = 1)
        => error \notin ClosureErrors

(***************************************************************************)
(* C11, amended: whatever reaches the end of filtering is non-empty, so    *)
(* the emptiness check never fires and single-day runs never end on a      *)
(* closure; a multi-day run ends with exit code 1 on a closure only at the *)
(* selection, when the walk's window holds no trading day, or when the     *)
(* latest date is closed and the file has no point on a selected day.      *)
(***************************************************************************)
C11_ClosureExitsOnlyAtSelection ==
    (days >= 1 /\ csv # <<>>)
        => /\ pc = "filtered" => filtered_data # <<>>
           /\ (pc = "done" /\ exit_code = 1 /\ error \in ClosureErrors)
                  => /\ days >= 2
                     /\ error # "No data available during trading hours"
                     /\ error = "Could not find trading days"
                            => TradingDaysInWindow = {}
                     /\ error = "No data found for the specified trading days"
                            => /\ ~is_trading_day(calendar, latest_date)
                               /\ \A i \in 1..Len(csv) :
                                      csv[i].timestamp.date
                                          \notin Elements(trading_days)

\* Two days asked for, the latest date closed, no row on the selected days.
C11_Witness ==
    /\ days >= 2
    /\ csv # <<>>
    /\ pc = "done"
    /\ exit_code = 1
    /\ error = "No data found for the specified trading days"
    /\ trading_days # <<>>

(***************************************************************************)
(* C12: the alignment step keeps an entry of a full-history series exactly *)
(* when its timestamp equals that of some filtered point; the entries kept *)
(* stay in their order, and an entry whose value is None is kept as it is. *)
(***************************************************************************)
\* The positions of the series whose timestamp is that of a point of data.
MatchingEntries(series, data) ==
    { i \in 1..Len(series) :
          \E j \in 1..Len(data) :
              Instant(series[i].timestamp) = Instant(data[j].timestamp) }

\* The k-th smallest member of a set of positions.
KthOf(positions, k) ==
    CHOOSE i \in positions : Cardinality({ j \in positions : j < i }) = k - 1

\* result lists the matching entries of the series, in the series' order.
IsRestriction(result, series, data) ==
    LET kept == MatchingEntries(series, data)
    IN  /\ Len(result) = Cardinality(kept)
        /\ \A k \in 1..Len(result) : result[k] = series[KthOf(kept, k)]

C12_AlignmentKeepsMatchingEntries ==
    pc = "aligned"
        => /\ IndicatorNames(filtered_indicators_data) = IndicatorNames(indicators_data)
           /\ \A name \in IndicatorNames(indicators_data) :
                  IsRestriction(filtered_indicators_data[name],
                                indicators_data[name], filtered_data)

\* An entry was dropped, and an entry without value and one with a value
\* were kept.
C12_Witness ==
    /\ pc = "aligned"
    /\ \E name \in IndicatorNames(indicators_data) :
           LET result == filtered_indicators_data[name]
           IN  /\ Len(result) < Len(indicators_data[name])
               /\ \E k \in 1..Len(result) : result[k].value = NoValue
               /\ \E k \in 1..Len(result) : result[k].value # NoValue

(***************************************************************************)
(* C13: aligning an already aligned series with the same filtered data     *)
(* gives the same series again.                                            *)
(***************************************************************************)
C13_AlignmentIdempotent ==
    pc = "aligned"
        => align_indicators(filtered_indicators_data, filtered_data)
               = filtered_indicators_data

\* The first alignment dropped entries and kept at least two.
C13_Witness ==
    /\ pc = "aligned"
    /\ \E name \in IndicatorNames(indicators_data) :
           /\ Len(filtered_indicators_data[name]) >= 2
           /\ Len(filtered_indicators_data[name]) < Len(indicators_data[name])

(***************************************************************************)
(* C14: for non-empty indicator data and a non-empty dataset,              *)
(* prepare_indicators_for_json returns one row per point of the dataset,   *)
(* in the dataset's order; row i has a key for every indicator name, with  *)
(* that indicator's value at the timestamp of point i, or null when the    *)
(* indicator has no entry, or the value None, at that timestamp.           *)
(***************************************************************************)
\* The series' value at a timestamp: that of its last entry there.
ValueAt(series, timestamp) ==
    LET same == { k \in 1..Len(series) :
                      Instant(series[k].timestamp) = Instant(timestamp) }
    IN  IF same = {} THEN NoValue
        ELSE series[CHOOSE k \in same : \A j \in same : j <= k].value

\* main has called prepare_indicators_for_json.
JsonPrepared ==
    /\ pc = "done"
    /\ output # ""
    /\ IndicatorNames(filtered_indicators_data) # {}

\* rows is as the claim says for the indicator series ind_data and data.
RowsAsClaimed(rows, ind_data, data) ==
    /\ Len(rows) = Len(data)
    /\ \A i \in 1..Len(data) :
           /\ DOMAIN rows[i] = IndicatorNames(ind_data)
           /\ \A name \in IndicatorNames(ind_data) :
                  rows[i][name] = ValueAt(ind_data[name], data[i].timestamp)

\* The rows main prepared for the filtered data, and the rows the function
\* gives for the data as loaded, which has points the aligned series have
\* no entry for.
C14_OneJsonRowPerPoint ==
    JsonPrepared
        => /\ RowsAsClaimed(indicators_for_json, filtered_indicators_data,
                            filtered_data)
           /\ RowsAsClaimed(prepare_indicators_for_json(filtered_indicators_data,
                                                        dataset),
                            filtered_indicators_data, dataset)

\* Two indicators over at least two points; some row holds a null and a
\* value, and a loaded point has no entry in the aligned series.
C14_Witness ==
    /\ JsonPrepared
    /\ Len(filtered_data) >= 2
    /\ Len(dataset) > Len(filtered_data)
    /\ Cardinality(IndicatorNames(filtered_indicators_data)) = 2
    /\ \E i \in 1..Len(indicators_for_json) :
           \E a, b \in IndicatorNames(filtered_indicators_data) :
               /\ indicators_for_json[i][a] = NoValue
               /\ indicators_for_json[i][b] # NoValue

(***************************************************************************)
(* C15: when the only requested indicator has a period larger than the     *)
(* number of points of the full history, the run is not aborted: the       *)
(* indicator is there with every value None, and processing goes on.       *)
(***************************************************************************)
\* The rows of the file whose cells all parse.
ValidRows(rows) == SelectSeq(rows, LAMBDA row : row.kind = "ok")

\* validate_inputs let the run pass and the indicator block is behind.
IndicatorBlockDone ==
    /\ input_path = "ok"
    /\ exchange_known
    /\ output # "bad"
    /\ pc \notin {"validate", "indicators"}

\* Exactly one indicator is asked for, of a period longer than the file.
OversizedPeriod ==
    /\ IndicatorBlockDone
    /\ Len(indicators) = 1
    /\ Len(ValidRows(csv)) = Len(csv)
    /\ Len(csv) >= 1
    /\ indicators[1] > Len(csv)

C15_OversizedPeriodNotFatal ==
    OversizedPeriod
        => /\ error # "Failed to process indicators"
           /\ indicators[1] \in IndicatorNames(indicators_data)
           /\ \A i \in 1..Len(indicators_data[indicators[1]]) :
                  indicators_data[indicators[1]][i].value = NoValue

(***************************************************************************)
(* C15, amended: such a run is aborted in the indicator block.  It ends    *)
(* with exit code 1 after "Failed to process indicators", no indicator is  *)
(* produced and the data to display is never loaded; the checks of the     *)
(* periods against the full history raise when no requested period fits.   *)
(***************************************************************************)
C15_OversizedPeriodAborts ==
    OversizedPeriod
        => /\ pc = "done"
           /\ exit_code = 1
           /\ error = "Failed to process indicators"
           /\ indicators_data = NoIndicators
           /\ "read" \notin Elements(events)
           /\ process_indicators(load_csv(csv), indicators).raised

\* One valid row, "ema_2" asked for, and the run is over.
C15_Witness ==
    /\ OversizedPeriod
    /\ pc = "done"
    /\ Len(csv) = 1
    /\ indicators = <<2>>
    /\ exit_code = 1

(***************************************************************************)
(* C16: with a valid --indicators and a file with enough rows, the run     *)
(* loads the whole history through the CSV reader, computes each indicator *)
(* over it with one value slot per point of the history, and goes on to    *)
(* the filtering without terminating.                                      *)
(***************************************************************************)
C16_IndicatorsOverFullHistory ==
    (/\ IndicatorBlockDone
     /\ indicators # <<>>
     /\ Len(ValidRows(csv)) = Len(csv)
     /\ \A k \in 1..Len(indicators) : indicators[k] <= Len(csv))
        => /\ error # "Failed to process indicators"
           /\ \A k \in 1..Len(indicators) :
                  /\ indicators[k] \in IndicatorNames(indicators_data)
                  /\ Len(indicators_data[indicators[k]]) = Len(csv)

(***************************************************************************)
(* C17: every StockDataset, whether built from the rows of the file, by    *)
(* filter_by_date, by filter_by_time_range or from the multi-day           *)
(* concatenation, holds a permutation of the list it was built from, in    *)
(* non-decreasing timestamp order, points of equal timestamp in the order  *)
(* they had in that list.                                                  *)
(***************************************************************************)
\* The points of the rows, in file order.
PointsOfRows(rows) ==
    [i \in 1..Len(rows) |-> OHLCVData(rows[i].timestamp, rows[i].close)]

\* Where point p stands in list; the points of one file are all different.
PositionIn(list, p) == CHOOSE i \in 1..Len(list) : list[i] = p

IsStableSortOf(data, list) ==
    /\ SamePoints(list, data)
    /\ NonDecreasing(data)
    /\ \A i, j \in 1..Len(data) :
           (i < j /\ Instant(data[i].timestamp) = Instant(data[j].timestamp))
               => PositionIn(list, data[i]) < PositionIn(list, data[j])

C17_DatasetsAreStableSorts ==
    /\ (pc = "load" /\ csv # <<>>)
           => IsStableSortOf(load_csv(csv).data, PointsOfRows(csv))
    /\ (days = 1 /\ pc = "filter_single")
           => IsStableSortOf(dataset,
                             PointsOfDate(load_csv(csv).data, latest_date, 1))
    /\ (days # 1 /\ pc = "filter_multi")
           => /\ IsStableSortOf(dataset,
                                CollectDays(load_csv(csv).data, trading_days, 1))
              /\ \A k \in 1..Len(trading_days) :
                     IsStableSortOf(filter_by_date(dataset, trading_days[k]),
                                    PointsOfDate(dataset, trading_days[k], 1))
    /\ (last_filter.called /\ ~last_filter.raised)
           => LET hours == get_trading_hours(calendar, last_filter.date)
              IN  IsStableSortOf(last_filter.output,
                                 PointsInRange(last_filter.input,
                                               hours[1], hours[2], 1))
    /\ (days # 1 /\ pc = "filtered" /\ all_filtered_data # <<>>)
           => IsStableSortOf(filtered_data, all_filtered_data)

\* The latest day's rows were not in timestamp order in the file, and two
\* of them carry the same timestamp.
C17_Witness ==
    /\ days = 1
    /\ pc = "filter_single"
    /\ Len(dataset) = Len(csv)
    /\ dataset # PointsOfRows(csv)
    /\ \E i \in 1..(Len(dataset) - 1) :
           Instant(dataset[i].timestamp) = Instant(dataset[i + 1].timestamp)

LoadCalled == "read" \in Elements(events)

\* The run ended in main's "except Exception" before any data was filtered.
LoadFailed ==
    pc = "done" /\ error = "Unexpected error" /\ filtered_data = <<>>

C19_InvalidRowsSkipped ==
    LoadCalled
        => /\ LoadFailed <=> ValidRows(csv) = <<>>
           /\ (days = 1 /\ pc = "filter_single")
                  => SamePoints(dataset,
                                PointsOfDate(PointsOfRows(ValidRows(csv)),
                                             latest_date, 1))

(***************************************************************************)
(* C20 as stated: a run whose exchange code cannot be resolved ends with   *)
(* exit code 1 at startup; the input file is neither accessed nor read     *)
(* before the exchange code has been validated, and it is never loaded     *)
(* after the validation failed.                                            *)
(***************************************************************************)
ExchangeValidations == {"exchange_valid", "exchange_invalid"}

InputAccesses == {"exists", "read"}

C20_NoInputAccessBeforeExchange ==
    /\ (~exchange_known /\ pc # "validate") => (pc = "done" /\ exit_code = 1)
    /\ ~exchange_known => "read" \notin Elements(events)
    /\ \A i \in 1..Len(events) :
           events[i] \in InputAccesses
               => \E j \in 1..(i - 1) : events[j] \in ExchangeValidations

(***************************************************************************)
(* C20, amended: such a run ends with exit code 1 in validate_inputs and   *)
(* never reads the input file.  The one access to the input that comes     *)
(* before the validation of the exchange code is the look-up of the path   *)
(* (existence and .csv suffix), which ends the run itself when it fails;   *)
(* the file is read only after the exchange code was found valid.          *)
(***************************************************************************)
C20_NoReadBeforeExchange ==
    /\ (~exchange_known /\ pc # "validate")
           => /\ pc = "done"
              /\ exit_code = 1
              /\ error \in { "Input file not found",
                             "Input file must be a CSV file",
                             "Invalid exchange code" }
    /\ ~exchange_known => "read" \notin Elements(events)
    /\ \A i \in 1..Len(events) :
           /\ events[i] = "read"
                  => \E j \in 1..(i - 1) : events[j] = "exchange_valid"
           /\ events[i] \in ExchangeValidations
                  => (i = 2 /\ events[1] = "exists")
           /\ events[i] = "exists" => i = 1

\* An existing .csv file and an unknown exchange code: the run is over.
C20_Witness ==
    /\ ~exchange_known
    /\ input_path = "ok"
    /\ csv # <<>>
    /\ pc = "done"
    /\ exit_code = 1
    /\ error = "Invalid exchange code"
    /\ events = <<"exists", "exchange_invalid">>

(***************************************************************************)
(* C21  Exit codes.                                                        *)
(***************************************************************************)
Interrupted == "interrupt" \in Elements(events)

\* What the command line and the file make fail, whatever step reports it.
FailingInputs ==
    \/ input_path # "ok"
    \/ ~exchange_known
    \/ output = "bad"
    \/ load_csv(csv).raised
    \/ lines = "bad"

\* The run came to the end of the display or of the export.
DeliveryCompleted ==
    /\ filtered_data # <<>>
    /\ sink_data = filtered_data
    /\ \/ output = "" /\ chart_data # <<>>
       \/ output # "" /\ json_structure # NoJson

\* C21: a run that ended has exit code 1 whenever a failure was logged and
\* whenever its input, exchange, output path, file content or line
\* specification is bad and no Ctrl-C came first; it has exit code 0 only
\* after a Ctrl-C or at the end of the display or the export.
C21_ExitCodes ==
    pc = "done" =>
        /\ exit_code \in {0, 1}
        /\ error # "" => exit_code = 1
        /\ Interrupted => exit_code = 0
        /\ (FailingInputs /\ ~Interrupted) => (exit_code = 1 /\ error # "")
        /\ exit_code = 0 => (Interrupted \/ DeliveryCompleted)
        /\ exit_code = 1 => error # ""

\* A run that got as far as the line specification and failed on it.
C21_Witness ==
    /\ pc = "done"
    /\ error = "Failed to process horizontal lines"
    /\ exit_code = 1
    /\ filtered_data # <<>>
    /\ ~Interrupted

(***************************************************************************)
(* C22  The export of a non-empty filtered dataset.                        *)
(***************************************************************************)
\* The run was given --output and came to the call of export_to_json.
ExportCalled ==
    /\ pc = "done"
    /\ output = "ok"
    /\ filtered_data # <<>>
    /\ lines # "bad"

\* C22: a run with --output whose filtering yields a non-empty dataset
\* exports it: the run succeeds, the data array holds one record per filtered
\* point, in the order of the points, and data_points_count is their number.
C22_ExportHoldsEveryFilteredPoint ==
    ExportCalled =>
        /\ exit_code = 0
        /\ json_structure.metadata.data_points_count = Len(filtered_data)
        /\ Len(json_structure.data) = Len(filtered_data)
        /\ \A i \in 1..Len(filtered_data) :
               /\ json_structure.data[i].close = filtered_data[i].close
               /\ json_structure.data[i].timestamp =
                      replace_tzinfo_none(filtered_data[i].timestamp)

(***************************************************************************)
(* C23  The exported records against the points.                           *)
(***************************************************************************)
\* export_to_json returned normally.
Exported == pc = "done" /\ exit_code = 0 /\ json_structure # NoJson

\* Same number of records, same order, same values.
RecordsFollowPoints ==
    /\ Len(json_structure.data) = Len(filtered_data)
    /\ json_structure.metadata.data_points_count = Len(filtered_data)
    /\ \A i \in 1..Len(filtered_data) :
           json_structure.data[i].close = filtered_data[i].close

\* The UTC offsets a reader of the file may assume for its timestamps.
ReaderOffsets == (-14)..14

\* C23 as stated: the records follow the points, the instants of all points
\* can be recovered from the exported timestamps by normalising them from
\* one offset, and points of different instants have different exported
\* timestamps.
C23_ExportKeepsInstants ==
    Exported =>
        /\ RecordsFollowPoints
        /\ \E off \in ReaderOffsets :
               \A i \in 1..Len(filtered_data) :
                   NaiveOrdinal(json_structure.data[i].timestamp) - off
                       = Instant(filtered_data[i].timestamp)
        /\ \A i, j \in 1..Len(filtered_data) :
               Instant(filtered_data[i].timestamp)
                       # Instant(filtered_data[j].timestamp)
                   => json_structure.data[i].timestamp
                          # json_structure.data[j].timestamp

\* C23, amended: the records follow the points, and each exported timestamp
\* is the date and time of day of its point as the file wrote them, that is
\* the instant moved by the point's own offset; points written at the same
\* offset keep their distance in time.
C23_ExportKeepsWallClock ==
    Exported =>
        /\ RecordsFollowPoints
        /\ \A i \in 1..Len(filtered_data) :
               /\ json_structure.data[i].timestamp.date
                      = filtered_data[i].timestamp.date
               /\ json_structure.data[i].timestamp.hour
                      = filtered_data[i].timestamp.hour
               /\ NaiveOrdinal(json_structure.data[i].timestamp)
                      = Instant(filtered_data[i].timestamp)
                        + filtered_data[i].timestamp.off
        /\ \A i, j \in 1..Len(filtered_data) :
               filtered_data[i].timestamp.off = filtered_data[j].timestamp.off
                   => NaiveOrdinal(json_structure.data[i].timestamp)
                      - NaiveOrdinal(json_structure.data[j].timestamp)
                      = Instant(filtered_data[i].timestamp)
                        - Instant(filtered_data[j].timestamp)

\* Two points twelve hours apart are exported with the same timestamp.
C23_Witness ==
    /\ Exported
    /\ \E i, j \in 1..Len(filtered_data) :
           /\ Instant(filtered_data[i].timestamp)
                  # Instant(filtered_data[j].timestamp)
           /\ json_structure.data[i].timestamp = json_structure.data[j].timestamp

(***************************************************************************)
(* C24  Offset-aware timestamps.                                           *)
(***************************************************************************)
Aware(timestamp) == timestamp.off # NoOffset

AllAware(data) == \A i \in 1..Len(data) : Aware(data[i].timestamp)

Logged(message, d) == LogEntry(message, d) \in log

\* The dates the walk has looked up so far.
WalkedDates ==
    IF pc = "walk" \/ SelectionReturned
    THEN { d \in QuarterDates :
             /\ current_date # NoDate
             /\ toordinal(current_date) < toordinal(d)
             /\ toordinal(d) <= toordinal(latest_date) }
    ELSE {}

\* The closed-exchange fallback, the empty-window fallback, a lookup that
\* found no trading hours and a selection shorter than requested have their
\* message in the log.
FallbacksLogged ==
    /\ (last_filter.called /\ last_filter.raised) =>
           /\ Logged("Exchange closed, using all data", last_filter.date)
           /\ Logged("Exchange is closed", last_filter.date)
    /\ (last_filter.called /\ ~last_filter.raised /\ last_filter.output = <<>>) =>
           Logged("No trading hours data, using all data", last_filter.date)
    /\ \A d \in WalkedDates :
           ~is_trading_day(calendar, d) => Logged("Exchange is closed", d)
    /\ (SelectionReturned /\ days > 0 /\ Len(trading_days) < days) =>
           Logged("Found trading days", latest_date)

\* The selected trading days the for loop passed without taking data.
SkippedDays ==
    IF days # 1 /\ pc \in {"filter_multi", "filtered", "aligned", "done"}
    THEN { trading_days[i] : i \in { k \in 1..Len(trading_days) :
                                       /\ k < day_index
                                       /\ filter_by_date(dataset, trading_days[k]) = <<>> } }
    ELSE {}

\* A skipped trading day and the fallback to the unfiltered multi-day
\* dataset have a message in the log.
SkipsLogged ==
    /\ \A d \in SkippedDays :
           \E entry \in log : entry.date = d /\ entry.message # "Found trading days"
    /\ (days # 1 /\ pc \in {"filtered", "aligned"} /\ all_filtered_data = <<>>) =>
           \E entry \in log : entry.message = "Using the unfiltered dataset"

IsCalendarDate(d) ==
    /\ d.month \in 1..12
    /\ d.day >= 1
    /\ toordinal(d) < toordinal(IF d.month = 12 THEN Date(d.year + 1, 1, 1)
                                 ELSE Date(d.year, d.month + 1, 1))

\* C26: after k steps of the walk, current_date is the calendar date k days
\* before the date the walk started from, so each step is "date minus one
\* day" and the dates examined are consecutive calendar days.
C26_PreviousDayIsDateMinusOne ==
    pc = "walk" =>
        /\ IsCalendarDate(current_date)
        /\ toordinal(current_date) = toordinal(latest_date) - days_checked

\* The walk has stepped from 1 March 1900 to 28 February 1900.
C26_Witness ==
    /\ pc = "walk"
    /\ latest_date = Date(1900, 3, 1)
    /\ current_date = Date(1900, 2, 28)
    /\ days_checked = 1

\* The walk has stepped from 1 January 2024 into December 2023.
C26_WitnessYearEnd ==
    /\ pc = "walk"
    /\ latest_date = Date(2024, 1, 1)
    /\ current_date = Date(2023, 12, 31)

(***************************************************************************)
(* C27  The end of the filtering.                                          *)
(***************************************************************************)
\* C27: at the end of the filtering filtered_data is non-empty; in multi-day
\* mode the per-day list is non-empty whenever the loaded dataset is, so
\* filtered_data is built from it and not from the unfiltered dataset; no
\* run ends with "No data available during trading hours".
C27_FilteredNeverEmpty ==
    /\ pc = "filtered" => filtered_data # <<>>
    /\ (pc = "filter_multi" /\ day_index > Len(trading_days) /\ dataset # <<>>)
           => all_filtered_data # <<>>
    /\ (days # 1 /\ pc \in {"filtered", "aligned"}) =>
           /\ all_filtered_data # <<>>
           /\ filtered_data = StockDataset(all_filtered_data)
    /\ error # "No data available during trading hours"

\* A multi-day run whose last day had no point inside its session.
C27_Witness ==
    /\ pc = "filtered"
    /\ days # 1
    /\ last_filter.called
    /\ ~last_filter.raised
    /\ last_filter.output = <<>>
    /\ Len(trading_days) = 2

SelectedDays == IF days = 1 THEN {latest_date} ELSE Elements(trading_days)

\* C29: at the end of the filtering, every point of the file that lies in
\* the session of a selected day on which the exchange is open is in
\* filtered_data, at whatever UTC offset the file wrote it.
C29_SessionCoverage ==
    (pc = "filtered" /\ ~load_csv(csv).raised) =>
        \A d \in SelectedDays :
            \A i \in 1..Len(load_csv(csv).data) :
                InSession(load_csv(csv).data[i], d)
                    => load_csv(csv).data[i] \in Elements(filtered_data)

(***************************************************************************)
(* C30  The order of the timestamps handed to the sinks.                   *)
(***************************************************************************)
\* The times of a list of chart rows or JSON records, as points of the time
\* axis of their reader.
TimesNonDecreasing(times) ==
    \A i \in 1..(Len(times) - 1) : NaiveOrdinal(times[i]) <= NaiveOrdinal(times[i + 1])

\* C30: the rows handed to the chart and the records and the time range
\* put into the JSON structure have non-decreasing times, the offsets being
\* stripped, and time_range.start is not after time_range.end.
C30_SinkTimesNonDecreasing ==
    pc = "done" =>
        /\ TimesNonDecreasing([i \in 1..Len(chart_data) |-> chart_data[i].time])
        /\ TimesNonDecreasing([i \in 1..Len(json_structure.data) |->
                                  json_structure.data[i].timestamp])
        /\ json_structure # NoJson =>
               NaiveOrdinal(json_structure.metadata.time_range.start)
                   <= NaiveOrdinal(json_structure.metadata.time_range.end)

====
